---- MODULE Spec2Model ----
(***************************************************************************)
(* A model of go-cdn, a small HTTP file server.  The repository holds      *)
(* three revisions of the request handler:                                 *)
(*   "basic"   src/main.go:1-121      net/http DefaultServeMux, hard-coded  *)
(*                                    credentials, reads "src", writes      *)
(*                                    "uploads/"                            *)
(*   "handler" src/main.go:123-372    CDNHandler bound straight to the      *)
(*                                    http.Server, heartbeat restarts       *)
(*   "chi"     src/unnamed/part_000   chi router, config-driven             *)
(*                                    credentials, filename allow-list      *)
(* Strings are sequences of one-character strings, so that trimming, the   *)
(* allow-list, filepath.Base/Ext/Clean/Join act on characters as the Go    *)
(* functions do.  The filesystem is a set of directories and a map from    *)
(* absolute file paths (sequences of names) to contents.                   *)
(***************************************************************************)
EXTENDS Integers, Sequences, FiniteSets, TLC

\* ------------------------------------------------------------------ bounds

\* Requests handled in one behaviour.
MaxRequests == 2

\* Config.MaxUploadSize of the modelled configuration, in bytes.
MaxUploadSize == 2

\* Heartbeat ticks delivered in one behaviour of the lifecycle.
MaxTicks == 2

\* ----------------------------------------------------------------- strings

SLASH == "/"
BACKSLASH == "\\"
DOT == "."
SPACE == " "

\* The characters the pattern of src/unnamed/part_000:46 admits, among those
\* the modelled names use: [a-zA-Z0-9-_\.]
AllowedChars ==
  { "a", "b", "c", "d", "e", "f", "g", "h", "i", "j", "k", "l", "m", "n", "o",
    "p", "q", "r", "s", "t", "u", "v", "w", "x", "y", "z", "0", "1", "-", "_",
    "." }

RECURSIVE IndexFrom(_, _, _)
\* The least index >= i at which s holds c, or 0.
IndexFrom(s, c, i) ==
  IF i > Len(s) THEN 0
  ELSE IF s[i] = c THEN i
  ELSE IndexFrom(s, c, i + 1)

RECURSIVE LastIndexFrom(_, _, _)
\* The greatest index <= i at which s holds c, or 0.
LastIndexFrom(s, c, i) ==
  IF i < 1 THEN 0
  ELSE IF s[i] = c THEN i
  ELSE LastIndexFrom(s, c, i - 1)

\* strings.Split(s, "/") without the empty pieces.
RECURSIVE Split(_)
Split(s) ==
  IF s = <<>> THEN <<>>
  ELSE LET i == IndexFrom(s, SLASH, 1)
       IN  IF i = 0 THEN <<s>>
           ELSE IF i = 1 THEN Split(Tail(s))
           ELSE <<SubSeq(s, 1, i - 1)>> \o Split(SubSeq(s, i + 1, Len(s)))

\* strings.Join(segs, "/")
RECURSIVE JoinSegs(_)
JoinSegs(segs) ==
  IF segs = <<>> THEN <<>>
  ELSE IF Len(segs) = 1 THEN segs[1]
  ELSE segs[1] \o <<SLASH>> \o JoinSegs(Tail(segs))

DOTDOT == <<DOT, DOT>>

\* ------------------------------------------------------------ path/filepath

RECURSIVE CleanSegs(_, _, _)
\* The element stack of filepath.Clean: "." is dropped, ".." removes the
\* element before it, is dropped at the root, and is kept at the head of a
\* relative path.
CleanSegs(segs, rooted, acc) ==
  IF segs = <<>> THEN acc
  ELSE LET s == Head(segs)
       IN  IF s = <<DOT>> THEN CleanSegs(Tail(segs), rooted, acc)
           ELSE IF s = DOTDOT
             THEN IF acc # <<>> /\ acc[Len(acc)] # DOTDOT
                    THEN CleanSegs(Tail(segs), rooted, SubSeq(acc, 1, Len(acc) - 1))
                  ELSE IF rooted THEN CleanSegs(Tail(segs), rooted, acc)
                  ELSE CleanSegs(Tail(segs), rooted, Append(acc, s))
           ELSE CleanSegs(Tail(segs), rooted, Append(acc, s))

\* filepath.Clean
Clean(p) ==
  LET rooted == p # <<>> /\ p[1] = SLASH
      body == JoinSegs(CleanSegs(Split(p), rooted, <<>>))
  IN  IF rooted THEN <<SLASH>> \o body
      ELSE IF body = <<>> THEN <<DOT>>
      ELSE body

\* filepath.Join of two elements: empty elements are ignored, the rest are
\* joined by "/" and cleaned; all empty gives "".
Join(a, b) ==
  IF a = <<>> /\ b = <<>> THEN <<>>
  ELSE IF a = <<>> THEN Clean(b)
  ELSE Clean(a \o <<SLASH>> \o b)

RECURSIVE StripTrailingSlashes(_)
StripTrailingSlashes(p) ==
  IF p # <<>> /\ p[Len(p)] = SLASH
    THEN StripTrailingSlashes(SubSeq(p, 1, Len(p) - 1))
  ELSE p

\* filepath.Base
Base(p) ==
  IF p = <<>> THEN <<DOT>>
  ELSE LET q == StripTrailingSlashes(p)
           i == LastIndexFrom(q, SLASH, Len(q))
       IN  IF q = <<>> THEN <<SLASH>>
           ELSE SubSeq(q, i + 1, Len(q))

\* filepath.Ext: the suffix of the last element from its last dot.
Ext(p) ==
  LET i == LastIndexFrom(p, DOT, Len(p))
      j == LastIndexFrom(p, SLASH, Len(p))
  IN  IF i > j THEN SubSeq(p, i, Len(p)) ELSE <<>>

\* strings.TrimSpace, over the one white-space character modelled.
RECURSIVE TrimSpace(_)
TrimSpace(s) ==
  IF s # <<>> /\ s[1] = SPACE THEN TrimSpace(Tail(s))
  ELSE IF s # <<>> /\ s[Len(s)] = SPACE THEN TrimSpace(SubSeq(s, 1, Len(s) - 1))
  ELSE s

\* ---------------------------------------------------------------- variables

VARIABLES
  cfg,       \* the configuration the handlers were constructed with
  files,     \* the filesystem's regular files: absolute path -> bytes
  dirs,      \* the filesystem's directories: a set of absolute paths
  uploaded,  \* history: supplied filename -> its last upload answered 200
  last,      \* the last request, the fault it met, what it did and its response
  nreq,      \* requests handled so far
  heartbeat, \* lifecycle: Config.Heartbeat, in ticks of the model's clock
  mainpc,    \* lifecycle: position of main()
  hbpc,      \* lifecycle: position of the heartbeat goroutine
  servers,   \* lifecycle: the http.Server values created, in creation order
  mainServer, \* lifecycle: main's variable server, an index into servers, or 0
  hbServer,  \* lifecycle: the heartbeat goroutine's variable server, or 0
  bound,     \* lifecycle: index of the server whose listener holds the port, or 0
  ticks,     \* lifecycle: heartbeat ticks delivered
  exited,    \* lifecycle: "no", or how the process exited
  copying,   \* concurrent uploads: each upload request's position, body and offset
  completed  \* concurrent uploads: the requests whose copy has returned, in order

httpVars == <<cfg, files, dirs, uploaded, last, nreq>>
lifeVars == <<heartbeat, mainpc, hbpc, servers, mainServer, hbServer, bound, ticks, exited>>
raceVars == <<copying, completed>>
vars ==
  <<cfg, files, dirs, uploaded, last, nreq,
    heartbeat, mainpc, hbpc, servers, mainServer, hbServer, bound, ticks, exited,
    copying, completed>>

\* ------------------------------------------------------------- names, bytes

Bytes == {0, 1}

\* The process's working directory, /w, which holds the configuration file
\* (main.go:280 opens "config.json" there) and the checkout's "src".
Cwd == << <<"w">> >>
ConfigName == <<"c", "o", "n", "f", "i", "g", ".", "j", "s", "o", "n">>
SrcName == <<"s", "r", "c">>
UploadsName == <<"u", "p", "l", "o", "a", "d", "s">>
UploadName == <<"u", "p", "l", "o", "a", "d">>
IndexName == <<"i", "n", "d", "e", "x", ".", "h", "t", "m", "l">>
MainGoName == <<"m", "a", "i", "n", ".", "g", "o">>
SecretBytes == <<1, 1, 0>>

\* uploadPath of the basic revision, "uploads/".
uploadPath == UploadsName \o <<SLASH>>

\* ---------------------------------------------------------------- the OS

RECURSIVE Walk(_, _)
\* The kernel's path walk over the names of a path, from a directory.
Walk(segs, at) ==
  IF segs = <<>> THEN at
  ELSE IF Head(segs) = <<DOT>> THEN Walk(Tail(segs), at)
  ELSE IF Head(segs) = DOTDOT
    THEN Walk(Tail(segs), IF at = <<>> THEN at ELSE SubSeq(at, 1, Len(at) - 1))
  ELSE Walk(Tail(segs), Append(at, Head(segs)))

\* The absolute path a path string names: from / when rooted, else from Cwd.
AbsPath(p) ==
  IF p # <<>> /\ p[1] = SLASH THEN Walk(Split(p), <<>>) ELSE Walk(Split(p), Cwd)

Prefixes(a) == { SubSeq(a, 1, n) : n \in 0..Len(a) }
ProperPrefixes(a) == { SubSeq(a, 1, n) : n \in 0..(Len(a) - 1) }

IsUnder(a, d) == Len(a) > Len(d) /\ SubSeq(a, 1, Len(d)) = d

\* The error of stat(2)/open(2) on path p: "ok", "ENOENT", "ENOTDIR".
PathErr(p, fs, ds) ==
  LET a == AbsPath(p)
  IN  IF p = <<>> THEN "ENOENT"
      ELSE IF a \in ds \/ a \in DOMAIN fs THEN "ok"
      ELSE IF \E q \in ProperPrefixes(a) : q \in DOMAIN fs THEN "ENOTDIR"
      ELSE "ENOENT"

\* os.MkdirAll: [ok, dirs].  The empty path and a path through a regular
\* file fail; otherwise the directory and its missing parents exist afterwards.
MkdirAll(p, fs, ds, fault) ==
  LET a == AbsPath(p)
  IN  IF p = <<>> \/ fault = "mkdir" THEN [ok |-> FALSE, dirs |-> ds]
      ELSE IF \E q \in Prefixes(a) : q \in DOMAIN fs THEN [ok |-> FALSE, dirs |-> ds]
      ELSE [ok |-> TRUE, dirs |-> ds \cup Prefixes(a)]

\* os.Create: [ok, files].  Creates the file or truncates it; fails on a
\* directory and where the parent is no directory.
Create(p, fs, ds, fault) ==
  LET a == AbsPath(p)
  IN  IF p = <<>> \/ fault = "create" \/ a = <<>> THEN [ok |-> FALSE, files |-> fs]
      ELSE IF a \in ds \/ SubSeq(a, 1, Len(a) - 1) \notin ds
        THEN [ok |-> FALSE, files |-> fs]
      ELSE [ok |-> TRUE,
            files |-> [q \in DOMAIN fs \cup {a} |-> IF q = a THEN <<>> ELSE fs[q]]]

\* io.Copy(dst, src) into the created file at absolute path a: [ok, files].
\* A failing copy has written the first n bytes.
CopyTo(a, data, fs, fault, n) ==
  IF fault = "copy"
    THEN [ok |-> FALSE, files |-> [fs EXCEPT ![a] = SubSeq(data, 1, n)]]
  ELSE [ok |-> TRUE, files |-> [fs EXCEPT ![a] = data]]

\* ------------------------------------------------------------- responses

TextPlain == "text/plain; charset=utf-8"
TextHtml == "text/html; charset=utf-8"
OctetStream == "application/octet-stream"
Challenge == "Basic realm=\"CDN Authentication\""

\* http.Error(w, text, status); http.NotFound is Error(404, "404 page not found").
Error(status, text) ==
  [status |-> status, kind |-> "text", text |-> text, data |-> <<>>,
   ctype |-> TextPlain, challenge |-> ""]

\* A body written with fmt.Fprint(f) on a fresh ResponseWriter: 200, sniffed type.
Text(text) ==
  [status |-> 200, kind |-> "text", text |-> text, data |-> <<>>,
   ctype |-> TextPlain, challenge |-> ""]

\* File bytes sent with status 200.
Content(data, ctype) ==
  [status |-> 200, kind |-> "file", text |-> "", data |-> data,
   ctype |-> ctype, challenge |-> ""]

\* The 401 answer all the authenticating handlers write.
Unauthorized ==
  [status |-> 401, kind |-> "text", text |-> "401 Unauthorized\n", data |-> <<>>,
   ctype |-> TextPlain, challenge |-> Challenge]

\* What one handler call did: its response, the filesystem it leaves, the kinds
\* of filesystem call it made and the absolute paths those calls were given, in
\* the order of the calls.
Out(resp, fs, ds, ops, touched) ==
  [resp |-> resp, files |-> fs, dirs |-> ds, ops |-> ops, touched |-> touched]

\* ---------------------------------------------------- net/http, mime/multipart

\* Part.FileName of Go 1.20 (the workflow's toolchain): the base name of the
\* filename parameter, "" when there is none.
FileName(raw) == IF raw = <<>> THEN <<>> ELSE Base(raw)

\* r.ParseMultipartForm(maxMemory): whether the body parses as a multipart
\* form.  maxMemory bounds memory, not the size of the body.
ParseMultipartForm(r) == r.form \in {"file", "nofile"}

\* r.FormFile("file") after a form that parsed: a part without a filename is
\* a value, not a file.
FormFile(r) ==
  IF r.form = "file" /\ FileName(r.filename) # <<>>
    THEN [ok |-> TRUE, Filename |-> FileName(r.filename)]
  ELSE [ok |-> FALSE, Filename |-> <<>>]

\* http.MaxBytesReader(w, r.Body, limit): reading past limit bytes fails.
MaxBytesReader(r, limit) == r.size <= limit

\* mime.TypeByExtension over its built-in table, "" where the table has none.
TypeByExtension(ext) ==
  IF ext \in { <<".", "j", "p", "g">>, <<".", "j", "p", "e", "g">> } THEN "image/jpeg"
  ELSE IF ext = <<".", "p", "n", "g">> THEN "image/png"
  ELSE IF ext = <<".", "p", "d", "f">> THEN "application/pdf"
  ELSE IF ext = <<".", "h", "t", "m", "l">> THEN TextHtml
  ELSE ""

\* http.DetectContentType: data holding a binary byte (0) is an octet stream,
\* anything else is plain text.
DetectContentType(data) ==
  IF \E i \in 1..Len(data) : data[i] = 0 THEN OctetStream ELSE TextPlain

\* Whether one of the path's elements, split at / and \, is "..".
RECURSIVE containsDotDot(_)
containsDotDot(p) ==
  LET i == IndexFrom(p, SLASH, 1)
      j == IndexFrom(p, BACKSLASH, 1)
      k == IF i = 0 THEN j ELSE IF j = 0 THEN i ELSE IF i < j THEN i ELSE j
  IN  IF k = 0 THEN p = DOTDOT
      ELSE SubSeq(p, 1, k - 1) = DOTDOT \/ containsDotDot(SubSeq(p, k + 1, Len(p)))

HasSuffix(s, t) == Len(s) >= Len(t) /\ SubSeq(s, Len(s) - Len(t) + 1, Len(s)) = t

\* The bytes and type http.serveContent sends for a file: the type by
\* extension, else sniffed from what could be read; a failing read cuts the
\* body short after the 200 header.
serveContent(name, data, fault) ==
  LET sent == IF fault.at = "read" THEN <<>> ELSE data
      byExt == TypeByExtension(Ext(name))
  IN  Content(sent, IF byExt # "" THEN byExt ELSE DetectContentType(sent))

\* http.ServeFile(w, r, name)
ServeFile(r, name, fs, ds, fault) ==
  LET a == AbsPath(name)
      index == Append(a, IndexName)
  IN  IF containsDotDot(r.path)
        THEN Out(Error(400, "invalid URL path"), fs, ds, {"stat"}, <<a>>)
      ELSE IF HasSuffix(r.path, <<SLASH>> \o IndexName)
        THEN Out([Error(301, "") EXCEPT !.kind = "redirect"], fs, ds, {"stat"}, <<a>>)
      ELSE IF fault.at = "open"
        THEN Out(Error(403, "403 Forbidden"), fs, ds, {"stat", "open"}, <<a>>)
      ELSE IF a \in ds
        THEN IF index \in DOMAIN fs
               THEN Out(serveContent(IndexName, fs[index], fault), fs, ds,
                        {"stat", "open", "read"}, <<a, index>>)
             ELSE Out([Content(<<>>, TextHtml) EXCEPT !.kind = "listing"], fs, ds,
                      {"stat", "open", "read"}, <<a, index>>)
      ELSE Out(serveContent(name, fs[a], fault), fs, ds, {"stat", "open", "read"}, <<a>>)

\* path.Clean as ServeMux applies it: a trailing slash is kept.
cleanPath(p) ==
  LET np == Clean(p)
  IN  IF p[Len(p)] = SLASH /\ np # <<SLASH>> THEN np \o <<SLASH>> ELSE np

\* ------------------------------------------- revision "basic", main.go:1-121

\* checkAuthentication, main.go:113-121
checkAuthentication_basic(r) ==
  r.auth.ok /\ r.auth.user = "admin" /\ r.auth.pass = "password"

\* serveCDN, main.go:28-60
serveCDN_basic(r, fs, ds, fault) ==
  IF ~checkAuthentication_basic(r) THEN Out(Unauthorized, fs, ds, {}, <<>>)
  ELSE LET filePath == Join(SrcName, r.path)
           err == IF fault.at = "stat" THEN "EACCES" ELSE PathErr(filePath, fs, ds)
       IN  IF err = "ENOENT"
             THEN Out(Error(404, "404 page not found"), fs, ds, {"stat"}, <<AbsPath(filePath)>>)
           ELSE IF err # "ok"
             THEN Out(Error(500, "Internal Server Error"), fs, ds, {"stat"}, <<AbsPath(filePath)>>)
           ELSE ServeFile(r, filePath, fs, ds, fault)

\* handleUpload, main.go:62-111
handleUpload_basic(r, fs, ds, fault) ==
  IF ~checkAuthentication_basic(r) THEN Out(Unauthorized, fs, ds, {}, <<>>)
  ELSE IF ~(ParseMultipartForm(r) /\ FormFile(r).ok)
    THEN Out(Error(400, "Bad Request"), fs, ds, {}, <<>>)
  ELSE LET header == FormFile(r)
           made == MkdirAll(uploadPath, fs, ds, fault.at)
           target == Join(uploadPath, header.Filename)
           dst == Create(target, fs, made.dirs, fault.at)
           copied == CopyTo(AbsPath(target), r.data, dst.files, fault.at, fault.n)
       IN  IF ~made.ok
             THEN Out(Error(500, "Internal Server Error"), fs, ds, {"mkdir"},
                      <<AbsPath(uploadPath)>>)
           ELSE IF ~dst.ok
             THEN Out(Error(500, "Internal Server Error"), fs, made.dirs,
                      {"mkdir", "create"}, <<AbsPath(uploadPath), AbsPath(target)>>)
           ELSE IF ~copied.ok
             THEN Out(Error(500, "Internal Server Error"), copied.files, made.dirs,
                      {"mkdir", "create", "write"}, <<AbsPath(uploadPath), AbsPath(target)>>)
           ELSE Out(Text("File uploaded successfully!"), copied.files, made.dirs,
                    {"mkdir", "create", "write"}, <<AbsPath(uploadPath), AbsPath(target)>>)

\* http.DefaultServeMux with the patterns of main.go:21-22: a path that is not
\* clean is redirected to its clean form; "/upload" matches exactly and "/"
\* matches every other path, whatever the method.
ServeMux_basic(r, fs, ds, fault) ==
  IF cleanPath(r.path) # r.path
    THEN Out([Error(301, "") EXCEPT !.kind = "redirect"], fs, ds, {}, <<>>)
  ELSE IF r.path = <<SLASH>> \o UploadName THEN handleUpload_basic(r, fs, ds, fault)
  ELSE serveCDN_basic(r, fs, ds, fault)

\* --------------------------------------- revision "handler", main.go:123-372

\* The Content-Type switch of handleGet, main.go:205-213
contentType(ext) ==
  IF ext \in { <<".", "j", "p", "g">>, <<".", "j", "p", "e", "g">> } THEN "image/jpeg"
  ELSE IF ext = <<".", "p", "n", "g">> THEN "image/png"
  ELSE IF ext = <<".", "p", "d", "f">> THEN "application/pdf"
  ELSE OctetStream

\* CDNHandler.handleGet, main.go:191-223.  Opening a directory succeeds and
\* reading it fails; a read that fails before any byte was sent ends in 500.
handleGet(c, r, fs, ds, fault) ==
  LET filePath == Join(c.dir, r.path)
      a == AbsPath(filePath)
      err == IF fault.at \in {"stat", "open"} THEN "EACCES" ELSE PathErr(filePath, fs, ds)
  IN  IF err # "ok"
        THEN Out(Error(404, "File Not Found"), fs, ds, {"open"}, <<a>>)
      ELSE IF a \in ds \/ fault.at = "read"
        THEN Out(Error(500, "Internal Server Error"), fs, ds, {"open", "read"}, <<a>>)
      ELSE Out(Content(fs[a], contentType(Ext(filePath))), fs, ds, {"open", "read"}, <<a>>)

\* CDNHandler.handlePost, main.go:226-276
handlePost(c, r, fs, ds, fault) ==
  IF ~(MaxBytesReader(r, c.maxUploadSize) /\ ParseMultipartForm(r))
    THEN Out(Error(413, "Payload Too Large"), fs, ds, {}, <<>>)
  ELSE IF ~FormFile(r).ok
    THEN Out(Error(500, "Error retrieving file"), fs, ds, {}, <<>>)
  ELSE LET handler == FormFile(r)
           uploadDir == IF c.dir = <<>> THEN UploadsName ELSE c.dir
           made == MkdirAll(uploadDir, fs, ds, fault.at)
           filePath == Join(uploadDir, handler.Filename)
           newFile == Create(filePath, fs, made.dirs, fault.at)
           copied == CopyTo(AbsPath(filePath), r.data, newFile.files, fault.at, fault.n)
       IN  IF ~made.ok
             THEN Out(Error(500, "Error creating upload directory"), fs, ds, {"mkdir"},
                      <<AbsPath(uploadDir)>>)
           ELSE IF ~newFile.ok
             THEN Out(Error(500, "Error creating file"), fs, made.dirs,
                      {"mkdir", "create"}, <<AbsPath(uploadDir), AbsPath(filePath)>>)
           ELSE IF ~copied.ok
             THEN Out(Error(500, "Error copying file"), copied.files, made.dirs,
                      {"mkdir", "create", "write"}, <<AbsPath(uploadDir), AbsPath(filePath)>>)
           ELSE Out(Text("File uploaded successfully"), copied.files, made.dirs,
                    {"mkdir", "create", "write"}, <<AbsPath(uploadDir), AbsPath(filePath)>>)

\* CDNHandler.ServeHTTP, main.go:179-188.  Config.RequireAuth, AuthUsername
\* and AuthPassword are read nowhere.
ServeHTTP(c, r, fs, ds, fault) ==
  IF r.method = "GET" THEN handleGet(c, r, fs, ds, fault)
  ELSE IF r.method = "POST" THEN handlePost(c, r, fs, ds, fault)
  ELSE Out(Error(405, "Method Not Allowed"), fs, ds, {}, <<>>)

\* -------------------------------------- revision "chi", unnamed/part_000

\* checkAuthentication, part_000:181-184
checkAuthentication_chi(c, r) ==
  r.auth.ok /\ r.auth.user = c.user /\ r.auth.pass = c.pass

\* sanitizeFilename, part_000:186-188
sanitizeFilename(filename) == TrimSpace(filename)

\* isValidFilename, part_000:190-192, with filenameRegex of part_000:46
isValidFilename(filename) ==
  filename # <<>> /\ \A i \in 1..Len(filename) : filename[i] \in AllowedChars

\* serveCDN, part_000:81-113
serveCDN_chi(c, r, fs, ds, fault) ==
  IF ~checkAuthentication_chi(c, r) THEN Out(Unauthorized, fs, ds, {}, <<>>)
  ELSE LET filePath == Join(c.dir, r.path)
           err == IF fault.at = "stat" THEN "EACCES" ELSE PathErr(filePath, fs, ds)
       IN  IF err = "ENOENT"
             THEN Out(Error(404, "404 page not found"), fs, ds, {"stat"}, <<AbsPath(filePath)>>)
           ELSE IF err # "ok"
             THEN Out(Error(500, "Internal Server Error"), fs, ds, {"stat"}, <<AbsPath(filePath)>>)
           ELSE ServeFile(r, filePath, fs, ds, fault)

\* handleUpload, part_000:115-179
handleUpload_chi(c, r, fs, ds, fault) ==
  IF ~checkAuthentication_chi(c, r) THEN Out(Unauthorized, fs, ds, {}, <<>>)
  ELSE IF ~ParseMultipartForm(r) THEN Out(Error(400, "Bad Request"), fs, ds, {}, <<>>)
  ELSE IF ~FormFile(r).ok
    THEN Out(Error(400, "No file provided in the request"), fs, ds, {}, <<>>)
  ELSE LET handler == FormFile(r)
           filename == sanitizeFilename(handler.Filename)
           made == MkdirAll(c.dir, fs, ds, fault.at)
           target == Join(c.dir, filename)
           dst == Create(target, fs, made.dirs, fault.at)
           copied == CopyTo(AbsPath(target), r.data, dst.files, fault.at, fault.n)
       IN  IF ~isValidFilename(filename)
             THEN Out(Error(400, "Invalid filename"), fs, ds, {}, <<>>)
           ELSE IF ~made.ok
             THEN Out(Error(500, "Internal Server Error"), fs, ds, {"mkdir"},
                      <<AbsPath(c.dir)>>)
           ELSE IF ~dst.ok
             THEN Out(Error(500, "Internal Server Error"), fs, made.dirs,
                      {"mkdir", "create"}, <<AbsPath(c.dir), AbsPath(target)>>)
           ELSE IF ~copied.ok
             THEN Out(Error(500, "Internal Server Error"), copied.files, made.dirs,
                      {"mkdir", "create", "write"}, <<AbsPath(c.dir), AbsPath(target)>>)
           ELSE Out(Text("File uploaded successfully!"), copied.files, made.dirs,
                    {"mkdir", "create", "write"}, <<AbsPath(c.dir), AbsPath(target)>>)

\* The chi router with the patterns of part_000:52-53: a pattern without a
\* wildcard matches its own path only, whatever the method; no other path
\* reaches a handler.
router_chi(c, r, fs, ds, fault) ==
  IF r.path = <<SLASH>> THEN serveCDN_chi(c, r, fs, ds, fault)
  ELSE IF r.path = <<SLASH>> \o UploadName THEN handleUpload_chi(c, r, fs, ds, fault)
  ELSE Out(Error(404, "404 page not found"), fs, ds, {}, <<>>)

\* ------------------------------------------------------------ the inputs

\* Credentials as r.BasicAuth() returns them: none, the configured pair, the
\* configured user with another password.
NoAuth == [ok |-> FALSE, user |-> "", pass |-> ""]
GoodAuth(c) == [ok |-> TRUE, user |-> c.user, pass |-> c.pass]
WrongAuth(c) == [ok |-> TRUE, user |-> c.user, pass |-> "wrong"]

\* Filename parameters of the uploaded part.
FileNames ==
  { <<"a", ".", "p", "d", "f">>,
    <<"b">>,
    <<".", ".">>,
    <<"a", " ", "b">>,
    <<" ", "b", " ">>,
    <<"d", "/", "b">>,
    <<"a", "\\", "b">>,
    <<>>,
    <<"c", ".", "p", "n", "g">>,
    <<"c", ".", "j", "p", "g">>,
    <<"c", ".", "j", "p", "e", "g">> }

\* The filenames uploads that meet a fault or are oversized carry.
FaultyFileNames == { <<"a", ".", "p", "d", "f">> }

\* URL paths of GET requests.
GetPaths ==
  { <<"/">>,
    <<"/", "b">>,
    <<"/", "a", ".", "p", "d", "f">>,
    <<"/", "c", ".", "p", "n", "g">>,
    <<"/", "c", ".", "j", "p", "g">>,
    <<"/", "c", ".", "j", "p", "e", "g">>,
    <<"/", "u", "p", "l", "o", "a", "d">>,
    <<"/", ".", ".", "/", "c", "o", "n", "f", "i", "g", ".", "j", "s", "o", "n">> }

\* The URL paths of the GET requests that meet a fault.
FaultyGetPaths == { <<"/", "a", ".", "p", "d", "f">>, <<"/">> }

\* Uploaded contents.
Datas == { <<1>>, <<0, 1>> }

NoFault == [at |-> "none", n |-> 0]

\* Faults of the environment a GET can meet: the path lookup is refused, the
\* open is refused, the read fails.
GetFaults == { [at |-> k, n |-> 0] : k \in {"none", "stat", "open", "read"} }

\* Faults an upload of data can meet: creating the directory fails, creating
\* the file fails, the copy fails after n bytes.
PostFaults(data) ==
  { [at |-> k, n |-> 0] : k \in {"none", "mkdir", "create"} }
    \cup { [at |-> "copy", n |-> n] : n \in 0..(IF data = <<>> THEN 0 ELSE Len(data) - 1) }

Request(method, path, auth, form, filename, data, size) ==
  [method |-> method, path |-> path, auth |-> auth, form |-> form,
   filename |-> filename, data |-> data, size |-> size]

NoRequest == Request("NONE", <<>>, NoAuth, "none", <<>>, <<>>, 0)

UploadPathOf == <<SLASH>> \o UploadName

\* ------------------------------------------------------------ the program

\* The configurations: the basic revision has none (its constants stand in),
\* the others read theirs from a file; the upload directory is set or left out.
Configs ==
  { [rev |-> "basic", dir |-> uploadPath, requireAuth |-> TRUE,
     user |-> "admin", pass |-> "password", maxUploadSize |-> MaxUploadSize] }
  \cup { [rev |-> "handler", dir |-> d, requireAuth |-> TRUE,
          user |-> "admin", pass |-> "secret", maxUploadSize |-> MaxUploadSize] :
         d \in {<<>>, UploadsName} }
  \cup { [rev |-> "chi", dir |-> d, requireAuth |-> TRUE,
          user |-> "admin", pass |-> "secret", maxUploadSize |-> MaxUploadSize] :
         d \in {<<>>, UploadsName} }

\* The handler the listening server hands a request to, by revision.
Dispatch(c, r, fs, ds, fault) ==
  IF c.rev = "basic" THEN ServeMux_basic(r, fs, ds, fault)
  ELSE IF c.rev = "handler" THEN ServeHTTP(c, r, fs, ds, fault)
  ELSE router_chi(c, r, fs, ds, fault)

InitFiles ==
  (Cwd \o <<ConfigName>>) :> SecretBytes @@ (Cwd \o <<SrcName, MainGoName>>) :> <<1>>

InitDirs == { <<>>, Cwd, Cwd \o <<SrcName>> }

\* The lifecycle as the request handling sees it: no heartbeat, main not begun.
InitLife ==
  /\ heartbeat = 0
  /\ mainpc = "start"
  /\ hbpc = "off"
  /\ servers = <<>>
  /\ mainServer = 0
  /\ hbServer = 0
  /\ bound = 0
  /\ ticks = 0
  /\ exited = "no"

\* The upload requests that run side by side, one goroutine of the server each.
Uploaders == {"A", "B"}

\* An upload request that has not arrived.
NoUpload == [pc |-> "idle", data |-> <<>>, off |-> 0, disturbed |-> FALSE]

\* No upload requests in flight.
InitRaceIdle ==
  /\ copying = [u \in Uploaders |-> NoUpload]
  /\ completed = <<>>

InitHttp ==
  /\ cfg \in Configs
  /\ files = InitFiles
  /\ dirs = InitDirs
  /\ uploaded = << >>
  /\ last = [req |-> NoRequest, fault |-> NoFault, resp |-> Error(0, ""),
             ops |-> {}, touched |-> <<>>, changed |-> FALSE]
  /\ nreq = 0

Init == InitHttp /\ InitLife /\ InitRaceIdle

\* One request, handled from its first byte to its response.
Serve(r, fault) ==
  /\ nreq < MaxRequests
  /\ \E out \in {Dispatch(cfg, r, files, dirs, fault)} :
       /\ files' = out.files
       /\ dirs' = out.dirs
       /\ last' = [req |-> r, fault |-> fault, resp |-> out.resp,
                   ops |-> out.ops, touched |-> out.touched,
                   changed |-> (out.files # files \/ out.dirs # dirs)]
       /\ uploaded' =
            IF r.method = "POST" /\ out.resp.status = 200
              THEN (r.filename :> [data |-> r.data, size |-> r.size]) @@ uploaded
            ELSE uploaded
  /\ nreq' = nreq + 1
  /\ UNCHANGED cfg
  /\ UNCHANGED lifeVars
  /\ UNCHANGED raceVars

\* A download that meets no fault.
Get ==
  \E auth \in {NoAuth, GoodAuth(cfg)}, path \in GetPaths :
    Serve(Request("GET", path, auth, "none", <<>>, <<>>, 0), NoFault)

\* A download during which the filesystem fails.
GetFault ==
  \E auth \in {NoAuth, GoodAuth(cfg)}, path \in FaultyGetPaths, fault \in GetFaults \ {NoFault} :
    Serve(Request("GET", path, auth, "none", <<>>, <<>>, 0), fault)

\* An upload of a multipart form with a file part, within the size limit.
Post ==
  \E auth \in {NoAuth, GoodAuth(cfg)}, name \in FileNames, data \in Datas :
    Serve(Request("POST", UploadPathOf, auth, "file", name, data, Len(data)), NoFault)

\* An upload whose body is larger than the limit.
PostLarge ==
  \E auth \in {NoAuth, GoodAuth(cfg)}, name \in FaultyFileNames, data \in Datas :
    Serve(Request("POST", UploadPathOf, auth, "file", name, data, MaxUploadSize + 1),
          NoFault)

\* An upload during which the filesystem fails.
PostFault ==
  \E auth \in {NoAuth, GoodAuth(cfg)}, name \in FaultyFileNames, data \in Datas :
    \E fault \in PostFaults(data) \ {NoFault} :
      Serve(Request("POST", UploadPathOf, auth, "file", name, data, Len(data)), fault)

\* A POST whose body is a form without a file part, or no multipart form.
PostBad ==
  \E auth \in {NoAuth, GoodAuth(cfg)}, form \in {"nofile", "malformed"}, size \in {1, MaxUploadSize + 1} :
    Serve(Request("POST", UploadPathOf, auth, form, <<>>, <<>>, size), NoFault)

\* A request that carries the configured user with a wrong password.
WrongCreds ==
  \/ \E path \in GetPaths :
       Serve(Request("GET", path, WrongAuth(cfg), "none", <<>>, <<>>, 0), NoFault)
  \/ \E name \in FaultyFileNames, data \in Datas :
       Serve(Request("POST", UploadPathOf, WrongAuth(cfg), "file", name, data, Len(data)),
             NoFault)

\* A request of another method.
Other ==
  \E auth \in {NoAuth, GoodAuth(cfg)} :
    Serve(Request("PUT", <<SLASH>>, auth, "none", <<>>, <<>>, 0), NoFault)

Next == Get \/ GetFault \/ Post \/ PostLarge \/ PostFault \/ PostBad \/ WrongCreds \/ Other

Spec == Init /\ [][Next]_vars

\* ------------------------------------- the lifecycle, main.go:304-365

\* An http.Server: where its ListenAndServe goroutine stands, and inShutdown.
\*   "new"      the goroutine of startServer has not run yet
\*   "checked"  ListenAndServe found the server not shutting down
\*   "bound"    net.Listen got the port
\*   "serving"  Serve tracks the listener and accepts connections
\*   "closed"   ListenAndServe returned http.ErrServerClosed
NewServer == [state |-> "new", inShutdown |-> FALSE]

Running == exited = "no"

\* startServer, main.go:326-351: a new http.Server on the configured port and
\* a goroutine that runs its ListenAndServe.
startServer == Append(servers, NewServer)

\* server.Shutdown of stopServer, main.go:354-365: inShutdown is set and the
\* listeners the server tracks are closed.
stopServer(i) ==
  /\ servers' = [servers EXCEPT ![i] =
                   [state |-> IF @.state = "serving" THEN "closed" ELSE @.state,
                    inShutdown |-> TRUE]]
  /\ bound' = IF servers[i].state = "serving" /\ bound = i THEN 0 ELSE bound

\* main.go:305-313: the heartbeat goroutine is started when Heartbeat > 0.
MainSpawnHeartbeat ==
  /\ Running /\ mainpc = "start"
  /\ mainpc' = "init"
  /\ hbpc' = IF heartbeat > 0 THEN "wait" ELSE "off"
  /\ UNCHANGED <<heartbeat, servers, mainServer, hbServer, bound, ticks, exited>>
  /\ UNCHANGED httpVars
  /\ UNCHANGED raceVars

\* main.go:316: the initial server.
MainStartServer ==
  /\ Running /\ mainpc = "init"
  /\ servers' = startServer
  /\ mainServer' = Len(servers) + 1
  /\ mainpc' = "wait"
  /\ UNCHANGED <<heartbeat, hbpc, hbServer, bound, ticks, exited>>
  /\ UNCHANGED httpVars
  /\ UNCHANGED raceVars

\* main.go:319: the termination signal arrives.
MainSignal ==
  /\ Running /\ mainpc = "wait"
  /\ mainpc' = "stop"
  /\ UNCHANGED <<heartbeat, hbpc, servers, mainServer, hbServer, bound, ticks, exited>>
  /\ UNCHANGED httpVars
  /\ UNCHANGED raceVars

\* main.go:322: main stops its server.
MainStopServer ==
  /\ Running /\ mainpc = "stop"
  /\ stopServer(mainServer)
  /\ mainpc' = "return"
  /\ UNCHANGED <<heartbeat, hbpc, mainServer, hbServer, ticks, exited>>
  /\ UNCHANGED httpVars
  /\ UNCHANGED raceVars

\* main.go:323: main returns; the process exits and its sockets are closed.
MainReturn ==
  /\ Running /\ mainpc = "return"
  /\ mainpc' = "done"
  /\ exited' = "returned"
  /\ bound' = 0
  /\ UNCHANGED <<heartbeat, hbpc, servers, mainServer, hbServer, ticks>>
  /\ UNCHANGED httpVars
  /\ UNCHANGED raceVars

\* main.go:307-309: a tick of time.Tick; the goroutine starts a server.
HeartbeatTick ==
  /\ Running /\ hbpc = "wait" /\ ticks < MaxTicks
  /\ ticks' = ticks + 1
  /\ servers' = startServer
  /\ hbServer' = Len(servers) + 1
  /\ hbpc' = "stop"
  /\ UNCHANGED <<heartbeat, mainpc, mainServer, bound, exited>>
  /\ UNCHANGED httpVars
  /\ UNCHANGED raceVars

\* main.go:310: the goroutine stops the server it has just started.
HeartbeatStopServer ==
  /\ Running /\ hbpc = "stop"
  /\ stopServer(hbServer)
  /\ hbpc' = "wait"
  /\ UNCHANGED <<heartbeat, mainpc, mainServer, hbServer, ticks, exited>>
  /\ UNCHANGED httpVars
  /\ UNCHANGED raceVars

\* main.go:345, ListenAndServe: a server that is shutting down returns
\* ErrServerClosed, which the goroutine lets pass.
ListenCheck(i) ==
  /\ Running /\ servers[i].state = "new"
  /\ servers' = [servers EXCEPT ![i].state =
                   IF servers[i].inShutdown THEN "closed" ELSE "checked"]
  /\ UNCHANGED <<heartbeat, mainpc, hbpc, mainServer, hbServer, bound, ticks, exited>>
  /\ UNCHANGED httpVars
  /\ UNCHANGED raceVars

\* main.go:345, net.Listen on a free port.
ListenBind(i) ==
  /\ Running /\ servers[i].state = "checked" /\ bound = 0
  /\ bound' = i
  /\ servers' = [servers EXCEPT ![i].state = "bound"]
  /\ UNCHANGED <<heartbeat, mainpc, hbpc, mainServer, hbServer, ticks, exited>>
  /\ UNCHANGED httpVars
  /\ UNCHANGED raceVars

\* main.go:345-347, net.Listen on a port another listener holds: the error is
\* not ErrServerClosed and logger.Fatalf exits the process, sockets and all.
ListenFatal(i) ==
  /\ Running /\ servers[i].state = "checked" /\ bound # 0
  /\ exited' = "fatal"
  /\ bound' = 0
  /\ UNCHANGED <<heartbeat, mainpc, hbpc, servers, mainServer, hbServer, ticks>>
  /\ UNCHANGED httpVars
  /\ UNCHANGED raceVars

\* main.go:345, Serve: the listener is tracked, or closed at once when the
\* server is shutting down.
ListenServe(i) ==
  /\ Running /\ servers[i].state = "bound"
  /\ servers' = [servers EXCEPT ![i].state =
                   IF servers[i].inShutdown THEN "closed" ELSE "serving"]
  /\ bound' = IF servers[i].inShutdown THEN 0 ELSE bound
  /\ UNCHANGED <<heartbeat, mainpc, hbpc, mainServer, hbServer, ticks, exited>>
  /\ UNCHANGED httpVars
  /\ UNCHANGED raceVars

InitLifecycle ==
  /\ heartbeat \in {0, 1}
  /\ mainpc = "start"
  /\ hbpc = "off"
  /\ servers = <<>>
  /\ mainServer = 0
  /\ hbServer = 0
  /\ bound = 0
  /\ ticks = 0
  /\ exited = "no"
  /\ cfg \in { c \in Configs : c.rev = "handler" }
  /\ files = InitFiles
  /\ dirs = InitDirs
  /\ uploaded = << >>
  /\ last = [req |-> NoRequest, fault |-> NoFault, resp |-> Error(0, ""),
             ops |-> {}, touched |-> <<>>, changed |-> FALSE]
  /\ nreq = 0
  /\ InitRaceIdle

NextLifecycle ==
  \/ MainSpawnHeartbeat
  \/ MainStartServer
  \/ MainSignal
  \/ MainStopServer
  \/ MainReturn
  \/ HeartbeatTick
  \/ HeartbeatStopServer
  \/ \E i \in 1..Len(servers) : ListenCheck(i)
  \/ \E i \in 1..Len(servers) : ListenBind(i)
  \/ \E i \in 1..Len(servers) : ListenFatal(i)
  \/ \E i \in 1..Len(servers) : ListenServe(i)

SpecLifecycle == InitLifecycle /\ [][NextLifecycle]_vars

\* ------------------- uploads side by side, main.go:246-276, part_000:152-178

\* The filename both requests carry.
RaceName == <<"a", ".", "p", "d", "f">>

\* Bodies of the racing uploads; a file part may be empty.
RaceDatas == Datas \cup { <<>> }

\* The directory the revision creates and writes into.
RaceDir == IF cfg.rev = "handler" /\ cfg.dir = <<>> THEN UploadsName ELSE cfg.dir

\* The destination both requests create.
RaceDest == AbsPath(Join(RaceDir, RaceName))

\* The file left by a write on a descriptor opened with O_APPEND: the bytes
\* land at the end of the file, whatever the descriptor's offset.
WriteAppend(content, off, chunk) == content \o chunk

\* write(2) on the descriptor os.Create returned: the bytes land at the
\* descriptor's own offset, and a gap before them reads as zero bytes.
WriteAt(content, off, chunk) ==
  LET end == off + Len(chunk)
      len == IF end > Len(content) THEN end ELSE Len(content)
  IN  [i \in 1..len |->
         IF i > off /\ i <= end THEN chunk[i - off]
         ELSE IF i <= Len(content) THEN content[i]
         ELSE 0]

\* The other requests that hold the destination open see it disturbed.
Disturb(u) ==
  [v \in Uploaders |->
     IF v # u /\ copying[v].pc \in {"copy", "done"}
       THEN [copying[v] EXCEPT !.disturbed = TRUE]
     ELSE copying[v]]

\* The handler up to and including os.Create (main.go:251-264,
\* part_000:153-167, main.go:85-99): the directory is made and the destination
\* is created or truncated.
RaceCreate(u, data) ==
  /\ copying[u].pc = "idle"
  /\ LET made == MkdirAll(RaceDir, files, dirs, "none")
         newFile == Create(Join(RaceDir, RaceName), files, made.dirs, "none")
     IN  /\ made.ok /\ newFile.ok
         /\ files' = newFile.files
         /\ dirs' = made.dirs
  /\ copying' = [Disturb(u) EXCEPT ![u] =
                   [pc |-> "copy", data |-> data, off |-> 0, disturbed |-> FALSE]]
  /\ UNCHANGED <<cfg, uploaded, last, nreq, completed>>
  /\ UNCHANGED lifeVars

\* The same stretch of the handler where the directory or the file cannot be
\* made: the request is answered 500.
RaceCreateFails(u, data) ==
  /\ copying[u].pc = "idle"
  /\ LET made == MkdirAll(RaceDir, files, dirs, "none")
         newFile == Create(Join(RaceDir, RaceName), files, made.dirs, "none")
     IN  /\ ~(made.ok /\ newFile.ok)
         /\ dirs' = made.dirs
  /\ copying' = [copying EXCEPT ![u] =
                   [pc |-> "failed", data |-> data, off |-> 0, disturbed |-> FALSE]]
  /\ UNCHANGED <<cfg, files, uploaded, last, nreq, completed>>
  /\ UNCHANGED lifeVars

\* One round of io.Copy (main.go:268, part_000:170, main.go:102): a chunk of
\* the body is written at the request's offset.
RaceWrite(u) ==
  /\ copying[u].pc = "copy"
  /\ copying[u].off < Len(copying[u].data)
  /\ \E n \in 1..(Len(copying[u].data) - copying[u].off) :
       LET off == copying[u].off
           chunk == SubSeq(copying[u].data, off + 1, off + n)
       IN  /\ files' = [files EXCEPT ![RaceDest] = WriteAt(@, off, chunk)]
           /\ copying' = [Disturb(u) EXCEPT ![u].off = off + n]
  /\ UNCHANGED <<cfg, dirs, uploaded, last, nreq, completed>>
  /\ UNCHANGED lifeVars

\* io.Copy returns at the end of the body and the request is answered 200
\* (main.go:268-275, part_000:170-178, main.go:102-110).
RaceFinish(u) ==
  /\ copying[u].pc = "copy"
  /\ copying[u].off = Len(copying[u].data)
  /\ copying' = [copying EXCEPT ![u].pc = "done"]
  /\ completed' = Append(completed, u)
  /\ UNCHANGED <<cfg, files, dirs, uploaded, last, nreq>>
  /\ UNCHANGED lifeVars

NextRace ==
  \/ \E u \in Uploaders, data \in RaceDatas : RaceCreate(u, data)
  \/ \E u \in Uploaders, data \in RaceDatas : RaceCreateFails(u, data)
  \/ \E u \in Uploaders : RaceWrite(u)
  \/ \E u \in Uploaders : RaceFinish(u)

SpecRace == Init /\ [][NextRace]_vars

\* ------------------------------------------------- the claims' vocabulary

\* The directory uploads are written to: the configured one, and "uploads"
\* where the handler revision finds none configured.
UploadDirectoryOf(c) ==
  IF c.rev = "handler" /\ c.dir = <<>> THEN UploadsName ELSE c.dir

UploadRoot == AbsPath(UploadDirectoryOf(cfg))

\* The path a download resolves to: the upload directory joined with the URL path.
ResolvedPath == AbsPath(Join(UploadDirectoryOf(cfg), last.req.path))

InsideUploadRoot(a) == a = UploadRoot \/ IsUnder(a, UploadRoot)

Authenticated == last.req.auth = GoodAuth(cfg)

IsGet == last.req.method = "GET"

\* An upload: a POST to the upload endpoint.
IsUpload == last.req.method = "POST"

\* The router answered the request itself (a redirect to the clean path, a 404
\* for a path without a route) and no handler of the repository ran.
RouterAnswered ==
  \/ cfg.rev = "basic" /\ last.resp.kind = "redirect"
  \/ cfg.rev = "chi" /\ last.req.path \notin {<<SLASH>>, UploadPathOf}

\* The absolute paths the request's filesystem calls were given.
Touched == { last.touched[i] : i \in 1..Len(last.touched) }

\* The check or the open of the requested file was refused by the system.
OpenRefused == last.fault.at \in {"stat", "open"}

\* The allow-list of the specification, ^[A-Za-z0-9_.-]+$
MatchesAllowList(name) ==
  name # <<>> /\ \A i \in 1..Len(name) : name[i] \in AllowedChars

Contains(s, c) == \E i \in 1..Len(s) : s[i] = c

\* A filename the specification rejects: empty after trimming, holding a path
\* separator, failing the allow-list, or leaving the upload directory once joined.
RejectedName(name) ==
  \/ TrimSpace(name) = <<>>
  \/ Contains(name, SLASH)
  \/ Contains(name, BACKSLASH)
  \/ ~MatchesAllowList(TrimSpace(name))
  \/ ~IsUnder(AbsPath(Join(UploadDirectoryOf(cfg), TrimSpace(name))), UploadRoot)

\* The Content-Type table of the specification.
TableType(name) ==
  LET ext == Ext(name)
  IN  IF ext \in { <<".", "j", "p", "g">>, <<".", "j", "p", "e", "g">> } THEN "image/jpeg"
      ELSE IF ext = <<".", "p", "n", "g">> THEN "image/png"
      ELSE IF ext = <<".", "p", "d", "f">> THEN "application/pdf"
      ELSE "application/octet-stream"

\* ------------------------------------------------------------- the claims

\* C1: a request without valid Basic-Auth credentials, where authentication is
\* required, is answered 401 and makes no filesystem call, in every revision.
\* (Stated for the requests a handler gets; an answer of the router itself,
\* which makes no filesystem call either, is not held against the claim.)
C1_Unauthenticated401 ==
  ( /\ last.req.method \in {"GET", "POST"}
    /\ cfg.requireAuth /\ ~Authenticated /\ ~RouterAnswered )
    => (last.resp.status = 401 /\ last.ops = {} /\ ~last.changed)

\* C2: an authenticated GET whose path holds ".." elements stats and opens only
\* the upload directory or paths under it, ends in 404 or 400, and sends no
\* file from outside the upload directory.  (Stated for a configured upload
\* directory and for the requests a handler gets: the router's redirect to the
\* clean path is not held against the claim.)
C2_NoTraversal ==
  ( /\ IsGet /\ Authenticated /\ containsDotDot(last.req.path)
    /\ cfg.dir # <<>> /\ ~RouterAnswered )
    => /\ \A a \in Touched : InsideUploadRoot(a)
       /\ last.resp.status \in {400, 404}
       /\ last.resp.kind # "file"

\* C3: after an upload answered 200 of a file whose name matches the allow-list
\* and whose body is within the limit, an authenticated GET of /<name> is
\* answered 200 with the uploaded bytes, in every configuration.
C3_RoundTrip ==
  \A name \in DOMAIN uploaded :
    ( /\ IsGet /\ Authenticated /\ last.fault = NoFault
      /\ last.req.path = <<SLASH>> \o name
      /\ MatchesAllowList(name)
      /\ uploaded[name].size <= cfg.maxUploadSize )
      => /\ last.resp.status = 200
         /\ last.resp.kind = "file"
         /\ last.resp.data = uploaded[name].data

\* C4: an authenticated upload whose filename the specification rejects is
\* answered 400 "Invalid filename" and changes nothing on disk.  (Stated for
\* the parts that carry a filename; a part without one is no file field.)
C4_InvalidFilename400 ==
  ( /\ IsUpload /\ Authenticated /\ last.fault = NoFault
    /\ last.req.form = "file" /\ last.req.filename # <<>>
    /\ last.req.size <= cfg.maxUploadSize
    /\ RejectedName(last.req.filename) )
    => (last.resp.status = 400 /\ ~last.changed)

\* C5: an upload whose body is larger than max_upload_size is answered 413
\* and changes nothing on disk, in every revision.
C5_TooLarge413 ==
  ( /\ IsUpload /\ Authenticated /\ last.req.form = "file"
    /\ last.req.size > cfg.maxUploadSize )
    => (last.resp.status = 413 /\ ~last.changed)

\* C6: an upload within the limit whose body is no multipart form, or a form
\* without a file field, is answered 400 and creates no file.
C6_BadForm400 ==
  ( /\ IsUpload /\ Authenticated
    /\ last.req.size <= cfg.maxUploadSize
    /\ last.req.form \in {"nofile", "malformed"} )
    => (last.resp.status = 400 /\ ~last.changed)

\* C7: an authenticated GET is answered 404 when the file it resolves to does
\* not exist, is answered with a server error and never with 404 when the
\* check or the open of the file is refused for another reason, and sends
\* file content only otherwise.
C7_MissingVersusFailing ==
  (IsGet /\ Authenticated /\ last.touched # <<>>)
    => LET a == last.touched[1]
           missing == a \notin DOMAIN files /\ a \notin dirs
       IN  /\ (~OpenRefused /\ missing) => last.resp.status = 404
           /\ OpenRefused => last.resp.status \in {403, 500}
           /\ last.resp.kind = "file" => (~OpenRefused /\ ~missing)

\* C8: an authenticated GET whose resolved path is an existing file inside the
\* upload directory is answered 200 with the file's bytes and the Content-Type
\* of the table.  (Stated for the requests that meet no fault of the system.)
C8_ServesStoredFile ==
  ( /\ IsGet /\ Authenticated /\ last.fault = NoFault
    /\ ResolvedPath \in DOMAIN files
    /\ IsUnder(ResolvedPath, UploadRoot) )
    => /\ last.resp.status = 200
       /\ last.resp.kind = "file"
       /\ last.resp.data = files[ResolvedPath]
       /\ last.resp.ctype = TableType(last.req.path)

\* The name an upload's file is stored under: the base name the form parser
\* hands over, trimmed.
StoredName(name) == TrimSpace(FileName(name))

\* C9: every file under the upload directory was written by an upload that was
\* answered 200 and whose filename passed validation, and holds what that
\* upload sent; no handler writes a file anywhere else.
C9_FilesFromSuccessfulUploads ==
  \A a \in DOMAIN files :
    \/ a \in DOMAIN InitFiles /\ files[a] = InitFiles[a]
    \/ \E name \in DOMAIN uploaded :
         /\ MatchesAllowList(StoredName(name))
         /\ a = Append(UploadRoot, StoredName(name))
         /\ files[a] = uploaded[name].data


\* The goroutines of every server created so far have run to a rest.
Settled == \A i \in 1..Len(servers) : servers[i].state \in {"serving", "closed"}

\* A server is accepting connections on the port.
Listening == \E i \in 1..Len(servers) : servers[i].state = "serving" /\ bound = i

\* C10: with a heartbeat configured, each heartbeat restarts the HTTP server
\* and a server is listening afterwards: the tick makes neither the process
\* exit nor leaves the serving instance the one from before the tick; without a
\* heartbeat no second server is ever made; and the instance main is about to
\* stop on the termination signal is the one that is serving.
C10_HeartbeatRestarts ==
  /\ exited # "fatal"
  /\ (heartbeat = 0 => Len(servers) <= 1)
  /\ (Running /\ mainpc = "wait" /\ hbpc = "wait" /\ ticks > 0 /\ Settled
        => Listening /\ bound # mainServer)
  /\ (mainpc = "stop" /\ Settled /\ Listening => bound = mainServer)


\* Both uploads were answered 200.
BothAnswered200 == \A u \in Uploaders : copying[u].pc = "done"

\* The upload whose copy returned last.
LastCompleted == completed[Len(completed)]

\* C11: when two uploads of the same filename run side by side and both are
\* answered 200, the stored file holds exactly the content of the upload
\* whose copy completed last.
C11_LastWriterWins ==
  BothAnswered200 => files[RaceDest] = copying[LastCompleted].data

\* C11, as amended: the stored file holds the content of the upload whose
\* copy completed last when the other upload neither truncated nor wrote the
\* destination after that upload created it; in every case each byte of the
\* stored file is the byte at that position of one of the two uploads or a
\* zero byte filling a gap, and the file is no longer than the longer upload.
C11_LastUndisturbedWriterWins ==
  BothAnswered200 =>
    LET stored == files[RaceDest]
    IN  /\ ~copying[LastCompleted].disturbed => stored = copying[LastCompleted].data
        /\ \E u \in Uploaders : Len(stored) <= Len(copying[u].data)
        /\ \A i \in 1..Len(stored) :
             \/ stored[i] = 0
             \/ \E u \in Uploaders :
                  i <= Len(copying[u].data) /\ stored[i] = copying[u].data[i]

\* C11, its case: both uploads answered 200 after writing across each other,
\* and the stored file is the content of neither.
C11_MixtureStored ==
  /\ BothAnswered200
  /\ copying[LastCompleted].disturbed
  /\ \A u \in Uploaders : files[RaceDest] # copying[u].data

====
